---------------------------- MODULE Spec2Model ----------------------------
(***************************************************************************)
(* A model of src/src/index.ts (restapi-typescript-decorators): the        *)
(* @RestClient / @RestApi decorators, the request assembly they perform    *)
(* on every invocation of a decorated method, and the promise pipeline     *)
(* request transform -> transport -> response transform behind the         *)
(* response handle's `result`.                                             *)
(*                                                                         *)
(* JavaScript strings are sequences of one-character strings, so that      *)
(* toLowerCase, indexOf, RegExp replace, template literals and base64 are  *)
(* computed, not assumed.  JavaScript values are tagged records.           *)
(***************************************************************************)
EXTENDS Integers, Sequences, FiniteSets, TLC

VARIABLES
    input,      \* arguments of the assembly step under study (pure-function specifications)
    output,     \* its result
    phase,      \* "input" before the step has run, "done" after
    client,     \* the client prototype: baseUrl, authType, defaultConfigs, __decorators
    client0,    \* the client as @RestClient left it (never written after Init)
    cooperative, \* whether the transport rejects once the signal it was given is aborted
    objs,       \* heap of headers objects: reference -> header map
    handles,    \* heap of response handles (finalResp): reference -> fields
    aborted,    \* AbortController heap: controller reference -> signal.aborted
    inv,        \* per invocation: control state and the objects it holds
    hist        \* per invocation: what has happened so far (observation only)

pureVars == <<input, output, phase>>
pipeVars == <<client, client0, cooperative, objs, handles, aborted, inv, hist>>
vars == <<input, output, phase, client, client0, cooperative, objs, handles, aborted, inv, hist>>

---------------------------------------------------------------------------
(* Bounds *)

\* number of invocations in flight on the one client instance
NInv == 2
\* number of times the caller observes (then / await) a handle's result
MaxObs == 2
\* longest path-parameter argument explored
MaxArgLen == 2
\* number of path bindings registered on a method
MaxBindings == 2

---------------------------------------------------------------------------
(* JavaScript values *)

Undef == [t |-> "undefined"]
Null == [t |-> "null"]
Str(s) == [t |-> "string", v |-> s]
Num(n) == [t |-> "number", v |-> n]
Bool(b) == [t |-> "boolean", v |-> b]
\* a plain object with the single own property x: n (enough to tell objects apart)
Obj(n) == [t |-> "object", v |-> n]

\* ToBoolean: the test applied by `a || b`, `a && b` and `if (a)`
Truthy(v) ==
    CASE v.t = "undefined" -> FALSE
      [] v.t = "null" -> FALSE
      [] v.t = "string" -> Len(v.v) > 0
      [] v.t = "number" -> v.v # 0
      [] v.t = "boolean" -> v.v
      [] OTHER -> TRUE

Ascii ==
    << " ", "!", "\"", "#", "$", "%", "&", "'", "(", ")", "*", "+", ",", "-", ".", "/",
       "0", "1", "2", "3", "4", "5", "6", "7", "8", "9", ":", ";", "<", "=", ">", "?",
       "@", "A", "B", "C", "D", "E", "F", "G", "H", "I", "J", "K", "L", "M", "N", "O",
       "P", "Q", "R", "S", "T", "U", "V", "W", "X", "Y", "Z", "[", "\\", "]", "^", "_",
       "grave", "a", "b", "c", "d", "e", "f", "g", "h", "i", "j", "k", "l", "m", "n", "o",
       "p", "q", "r", "s", "t", "u", "v", "w", "x", "y", "z", "{", "|", "}", "~" >>

\* character code of a printable ASCII character, and back (code 96, the grave
\* accent, cannot be written as a string of the module and is spelled out)
Ord(c) == 31 + (CHOOSE k \in 1..Len(Ascii) : Ascii[k] = c)
Chr(n) == Ascii[n - 31]

RECURSIVE Digits(_)
Digits(n) == IF n < 10 THEN <<Chr(48 + n)>> ELSE Digits(n \div 10) \o <<Chr(48 + (n % 10))>>

\* JSToString, as applied by template literals and by String.prototype.replace
JSToString(v) ==
    CASE v.t = "undefined" -> <<"u", "n", "d", "e", "f", "i", "n", "e", "d">>
      [] v.t = "null" -> <<"n", "u", "l", "l">>
      [] v.t = "string" -> v.v
      [] v.t = "number" -> Digits(v.v)
      [] v.t = "boolean" -> IF v.v THEN <<"t", "r", "u", "e">> ELSE <<"f", "a", "l", "s", "e">>
      [] OTHER -> <<"[", "o", "b", "j", "e", "c", "t", " ", "O", "b", "j", "e", "c", "t", "]">>

ToLowerChar(c) == IF Ord(c) >= 65 /\ Ord(c) <= 90 THEN Chr(Ord(c) + 32) ELSE c
ToUpperChar(c) == IF Ord(c) >= 97 /\ Ord(c) <= 122 THEN Chr(Ord(c) - 32) ELSE c
ToLowerCase(s) == [k \in 1..Len(s) |-> ToLowerChar(s[k])]
ToUpperCase(s) == [k \in 1..Len(s) |-> ToUpperChar(s[k])]

\* String.prototype.indexOf: the first 0-based position of pat in s, or -1
IndexOf(s, pat) ==
    LET hits == {k \in 0..(Len(s) - Len(pat)) : SubSeq(s, k + 1, k + Len(pat)) = pat}
    IN IF hits = {} THEN -1 ELSE CHOOSE k \in hits : \A j \in hits : k <= j

\* JSON.stringify on the values of the model
JSONStringify(v) ==
    CASE v.t = "undefined" -> Undef
      [] v.t = "null" -> Str(<<"n", "u", "l", "l">>)
      [] v.t = "string" -> Str(<<"\"">> \o v.v \o <<"\"">>)
      [] v.t = "number" -> Str(Digits(v.v))
      [] v.t = "boolean" -> Str(JSToString(v))
      [] OTHER -> Str(<<"{", "\"", "x", "\"", ":">> \o Digits(v.v) \o <<"}">>)

---------------------------------------------------------------------------
(* Objects as maps from property name to value *)

EmptyObj == [n \in {} |-> Undef]

\* obj[name], undefined when the property does not exist
Prop(obj, name) == IF name \in DOMAIN obj THEN obj[name] ELSE Undef

\* lodash.assign(target, source): own properties of source overwrite target's
objectAssign(target, source) ==
    [n \in (DOMAIN target) \cup (DOMAIN source) |->
        IF n \in DOMAIN source THEN source[n] ELSE target[n]]

\* obj with obj[name] = value
SetProp(obj, name, value) ==
    [n \in (DOMAIN obj) \cup {name} |-> IF n = name THEN value ELSE obj[n]]

---------------------------------------------------------------------------
(* String constants of the source *)

sAppJson == <<"a", "p", "p", "l", "i", "c", "a", "t", "i", "o", "n", "/", "j", "s", "o", "n">>
sBasic == <<"B", "a", "s", "i", "c">>
sBearer == <<"B", "e", "a", "r", "e", "r">>
sDigest == <<"D", "i", "g", "e", "s", "t">>
sGET == <<"G", "E", "T">>

\* enum AuthTypeEnum
AuthTypeEnum == [Basic |-> sBasic, Bearer |-> sBearer, Digest |-> sDigest]

\* enum HttpVerbEnum
HttpVerbEnum ==
    [GET |-> sGET, POST |-> <<"P", "O", "S", "T">>, DELETE |-> <<"D", "E", "L", "E", "T", "E">>,
     PUT |-> <<"P", "U", "T">>, PATCH |-> <<"P", "A", "T", "C", "H">>]

\* const _isOfTypeJson
isOfTypeJson(typeAsString) ==
    IndexOf(ToLowerCase(IF Truthy(typeAsString) THEN JSToString(typeAsString) ELSE <<>>),
            sAppJson) >= 0

---------------------------------------------------------------------------
(* Credentials and the Authorization header *)

Bytes(s) == [k \in 1..Len(s) |-> Ord(s[k])]

B64Char(n) ==
    IF n < 26 THEN Chr(65 + n)
    ELSE IF n < 52 THEN Chr(97 + (n - 26))
    ELSE IF n < 62 THEN Chr(48 + (n - 52))
    ELSE IF n = 62 THEN "+" ELSE "/"

\* Buffer.from(str).toString('base64') on the bytes of str
RECURSIVE Base64(_)
Base64(b) ==
    IF Len(b) = 0 THEN <<>>
    ELSE IF Len(b) = 1 THEN
        <<B64Char(b[1] \div 4), B64Char((b[1] % 4) * 16), "=", "=">>
    ELSE IF Len(b) = 2 THEN
        <<B64Char(b[1] \div 4), B64Char((b[1] % 4) * 16 + (b[2] \div 16)),
          B64Char((b[2] % 16) * 4), "=">>
    ELSE
        <<B64Char(b[1] \div 4), B64Char((b[1] % 4) * 16 + (b[2] \div 16)),
          B64Char((b[2] % 16) * 4 + (b[3] \div 64)), B64Char(b[3] % 64)>>
        \o Base64(SubSeq(b, 4, Len(b)))

\* const _getBase64FromString
getBase64FromString(str) == Str(Base64(Bytes(str)))

\* get(instance, ['__decorators', '@CredentialProperty', role]) used as a property
\* key: an unbound role gives undefined, and instance[undefined] reads the
\* property named "undefined"
CredentialKey(instance, role) ==
    IF role \in DOMAIN instance.decorators.credentialProperty
    THEN instance.decorators.credentialProperty[role]
    ELSE "undefined"

\* the credential of a Basic client: base64 of `${username}:${password}`
BasicCredential(username, password) ==
    getBase64FromString(JSToString(username) \o <<":">> \o JSToString(password))

\* const _getCredential
getCredential(instance) ==
    CASE instance.authType = AuthTypeEnum.Bearer ->
            Prop(instance.props, CredentialKey(instance, "AccessToken"))
      [] instance.authType = AuthTypeEnum.Basic ->
            BasicCredential(Prop(instance.props, CredentialKey(instance, "Username")),
                            Prop(instance.props, CredentialKey(instance, "Password")))
      [] OTHER -> Undef

\* the merge with the two sources in the wrong order
HeadersToUseDefaultsLast(target, defaultHeaders, headers) ==
    objectAssign(objectAssign(target, headers), defaultHeaders)

\* headersToUse = objectAssign({}, defaultConfigs.headers, headers), written into
\* the object `target`
HeadersToUse(target, defaultHeaders, headers) ==
    objectAssign(objectAssign(target, defaultHeaders), headers)

\* if (authType && credential) headersToUse['Authorization'] = `${authType} ${credential}`
WithAuthorization(headersToUse, instance) ==
    LET authType == instance.authType
        credential == getCredential(instance)
    IN IF Len(authType) > 0 /\ Truthy(credential)
       THEN SetProp(headersToUse, "Authorization",
                    Str(authType \o <<" ">> \o JSToString(credential)))
       ELSE headersToUse

---------------------------------------------------------------------------
(* @RestClient *)

sTextPlain == <<"t", "e", "x", "t", "/", "p", "l", "a", "i", "n">>

BuiltinHeaders ==
    [n \in {"Accept", "Content-Type"} |-> Str(sAppJson)]

BuiltinConfigs ==
    [mode |-> Str(<<"c", "o", "r", "s">>),
     cache |-> Str(<<"n", "o", "-", "c", "a", "c", "h", "e">>),
     credentials |-> Str(<<"i", "n", "c", "l", "u", "d", "e">>),
     headers |-> EmptyObj]

\* defaultConfigsToUse of RestClient: restOptions' remaining keys over the built-in
\* configuration, then its headers over the built-in headers.  lodash.assign
\* skips a source that is undefined.
DefaultConfigsToUse(defaultConfigs) ==
    LET merged == objectAssign(BuiltinConfigs, defaultConfigs)
        given == merged["headers"]
    IN [merged EXCEPT !["headers"] =
            IF "t" \in DOMAIN given THEN BuiltinHeaders
            ELSE objectAssign(BuiltinHeaders, given)]

\* The prototype RestClient(restOptions) builds.  decorators and props are what
\* the parameter / property decorators and the constructor put on the instance.
RestClient(baseUrl, authType, defaultConfigs, decorators, props) ==
    [baseUrl |-> baseUrl,
     authType |-> IF Truthy(authType) THEN JSToString(authType) ELSE <<>>,
     defaultConfigs |-> DefaultConfigsToUse(defaultConfigs),
     decorators |-> decorators,
     props |-> props]

---------------------------------------------------------------------------
(* The target URL: RestApi's descriptor.value, url wild cards and query string *)

\* One atom of the pattern new RegExp(`{${paramKey}}`, 'g') against one character.
\* "." is the wildcard; the other characters of the keys explored stand for
\* themselves, as do "{" and "}" around a name that is no quantifier.
RegExpAtomMatches(p, c) == IF p = "." THEN TRUE ELSE p = c

\* whether the pattern matches s at the 1-based position k
RegExpMatchesAt(pattern, s, k) ==
    /\ k + Len(pattern) - 1 <= Len(s)
    /\ \A j \in 1..Len(pattern) : RegExpAtomMatches(pattern[j], s[k + j - 1])

\* GetSubstitution of String.prototype.replace for a pattern without capture
\* groups: "$$" is "$", "$&" is the matched text, "$'" the text after the match,
\* any other character stands for itself
RECURSIVE GetSubstitution(_, _, _)
GetSubstitution(replacement, matched, after) ==
    IF Len(replacement) = 0 THEN <<>>
    ELSE IF Len(replacement) >= 2 /\ replacement[1] = "$" /\ replacement[2] = "$"
        THEN <<"$">> \o GetSubstitution(SubSeq(replacement, 3, Len(replacement)), matched, after)
    ELSE IF Len(replacement) >= 2 /\ replacement[1] = "$" /\ replacement[2] = "&"
        THEN matched \o GetSubstitution(SubSeq(replacement, 3, Len(replacement)), matched, after)
    ELSE IF Len(replacement) >= 2 /\ replacement[1] = "$" /\ replacement[2] = "'"
        THEN after \o GetSubstitution(SubSeq(replacement, 3, Len(replacement)), matched, after)
    ELSE <<replacement[1]>> \o GetSubstitution(Tail(replacement), matched, after)

\* s.replace(new RegExp(pattern, 'g'), replacement) from position k on: matches are
\* found left to right in s itself and do not overlap
RECURSIVE RegExpReplaceFrom(_, _, _, _)
RegExpReplaceFrom(s, pattern, replacement, k) ==
    IF k > Len(s) THEN <<>>
    ELSE IF RegExpMatchesAt(pattern, s, k)
        THEN GetSubstitution(replacement,
                             SubSeq(s, k, k + Len(pattern) - 1),
                             SubSeq(s, k + Len(pattern), Len(s)))
             \o RegExpReplaceFrom(s, pattern, replacement, k + Len(pattern))
    ELSE <<s[k]>> \o RegExpReplaceFrom(s, pattern, replacement, k + 1)

\* urlToUse.replace(new RegExp(`{${paramKey}}`, 'g'), paramValue)
ReplaceWildCard(urlToUse, paramKey, paramValue) ==
    RegExpReplaceFrom(urlToUse, <<"{">> \o paramKey \o <<"}">>, JSToString(paramValue), 1)

\* inputs[idx]: undefined when idx is undefined or outside the argument list
InputAt(inputs, idx) ==
    IF idx.t = "number" /\ idx.v + 1 \in DOMAIN inputs THEN inputs[idx.v + 1] ELSE Undef

\* Object.keys(pathParams).forEach(...): pathParams is the sequence of
\* <<paramKey, paramIdx>> in the order of the object's keys
RECURSIVE ReplaceWildCards(_, _, _)
ReplaceWildCards(urlToUse, pathParams, inputs) ==
    IF Len(pathParams) = 0 THEN urlToUse
    ELSE ReplaceWildCards(
            ReplaceWildCard(urlToUse, pathParams[1][1], InputAt(inputs, Num(pathParams[1][2]))),
            Tail(pathParams), inputs)

\* qs.stringify of a flat object, given as the sequence of its <<key, value>> pairs
RECURSIVE qsStringify(_)
qsStringify(queryParams) ==
    IF Len(queryParams) = 0 THEN <<>>
    ELSE queryParams[1][1] \o <<"=">> \o JSToString(queryParams[1][2])
         \o (IF Len(queryParams) > 1 THEN <<"&">> ELSE <<>>)
         \o qsStringify(Tail(queryParams))

\* the method's entry of __decorators: [requestBody, queryParams: an argument index
\* or undefined; pathParam: the registered bindings]
MethodDecorators(instance, methodName) == instance.decorators.methods[methodName]

\* const _getRequestBody
getRequestBody(instance, methodName, inputs) ==
    InputAt(inputs, MethodDecorators(instance, methodName).requestBody)

\* const _getPathParams
getPathParams(instance, methodName) == MethodDecorators(instance, methodName).pathParam

\* const _getQueryParams: the bound argument, a sequence of pairs, or {} 
getQueryParams(instance, methodName, inputs) ==
    LET q == InputAt(inputs, MethodDecorators(instance, methodName).queryParams)
    IN IF q.t = "query" THEN q.v ELSE <<>>

\* urlToUse of descriptor.value
UrlToUse(instance, methodName, url, inputs) ==
    LET replaced == ReplaceWildCards(instance.baseUrl \o url,
                                     getPathParams(instance, methodName), inputs)
        queryParams == getQueryParams(instance, methodName, inputs)
    IN IF Len(queryParams) > 0
       THEN replaced \o <<"?">> \o qsStringify(queryParams)
       ELSE replaced

---------------------------------------------------------------------------
(* The request handed to the request transform, and the default transforms *)

\* the options without the controller's signal
FetchOptionsNoSignal(urlToUse, method, signal, headersToUse, otherFetchOptions) ==
    objectAssign([url |-> urlToUse, method |-> ToUpperCase(method), headers |-> headersToUse],
                 otherFetchOptions)

\* the options with the method left in the letter case of its declaration
FetchOptionsAsDeclared(urlToUse, method, signal, headersToUse, otherFetchOptions) ==
    objectAssign([url |-> urlToUse, method |-> method,
                  signal |-> signal, headers |-> headersToUse],
                 otherFetchOptions)

\* objectAssign({url, method: method.toUpperCase(), signal, headers}, otherFetchOptions)
FetchOptions(urlToUse, method, signal, headersToUse, otherFetchOptions) ==
    objectAssign([url |-> urlToUse, method |-> ToUpperCase(method),
                  signal |-> signal, headers |-> headersToUse],
                 otherFetchOptions)

\* bodyToUse of _defaultRequestTransform; headers is the object that
\* fetchOptionToUse.headers denotes
BodyToUse(method, headers, body) ==
    IF method = HttpVerbEnum.GET THEN Undef
    ELSE IF isOfTypeJson(Prop(headers, "Accept")) THEN JSONStringify(body)
    ELSE IF Truthy(body) THEN body ELSE Null

\* const _defaultRequestTransform: the options object itself, with body assigned
defaultRequestTransform(fetchOptionToUse, body, headers) ==
    objectAssign(fetchOptionToUse,
                 [body |-> BodyToUse(fetchOptionToUse["method"], headers, body)])

\* const _defaultResponseTransform on the text of the response: JSON.parse when
\* Accept is JSON and the text parses, the text otherwise.  A response text is
\* [json |-> whether it parses, v |-> n]; parsing text n gives the object n.
defaultResponseTransform(headers, respText) ==
    IF isOfTypeJson(Prop(headers, "Accept")) /\ respText.json
    THEN Obj(respText.v)
    ELSE [t |-> "text", v |-> respText.v]

---------------------------------------------------------------------------
(* Inputs of the assembly steps *)

sBase == <<"h">>

\* the instance property each credential role is bound to when it is bound
CredentialPropertyName ==
    [AccessToken |-> "accessToken", Username |-> "username", Password |-> "password"]

\* values a credential property can hold; undefined is a property never set
CredentialValues == {Undef, Str(<<>>), Str(<<"s">>)}

AuthTypes == {Undef, Str(sBasic), Str(sBearer), Str(sDigest)}

HeaderNames == {"Accept", "Content-Type", "Authorization"}
HeaderValues == {Str(sTextPlain), Str(<<"v">>)}

\* every headers object over HeaderNames
HeaderMaps ==
    UNION {[names -> HeaderValues] : names \in SUBSET HeaderNames}

\* __decorators of a class with the roles in `bound` bound and no method
CredentialDecorators(bound) ==
    [credentialProperty |-> [r \in bound |-> CredentialPropertyName[r]],
     methods |-> EmptyObj]

\* the instance's own properties: the credential properties that were set
CredentialProps(token, username, password) ==
    LET all == [accessToken |-> token, username |-> username, password |-> password]
    IN [n \in {m \in DOMAIN all : all[m] # Undef} |-> all[n]]

\* restOptions without baseUrl and authType: headers only when given
RestOptionsWith(classHeaders) ==
    IF classHeaders = Undef THEN EmptyObj ELSE [headers |-> classHeaders]

HeaderInputs ==
    \* every credential situation, with no headers of the caller's
    [authType : AuthTypes, bound : SUBSET {"AccessToken", "Username", "Password"},
     token : CredentialValues, username : CredentialValues, password : CredentialValues,
     classHeaders : {Undef}, callHeaders : {EmptyObj}]
    \cup
    \* every combination of class-level and call-site headers, without and with auth
    [authType : {Undef, Str(sBearer)}, bound : {{"AccessToken"}},
     token : {Str(<<"s">>)}, username : {Undef}, password : {Undef},
     classHeaders : HeaderMaps \cup {Undef}, callHeaders : HeaderMaps]

HeaderInstance(in) ==
    RestClient(sBase, in.authType, RestOptionsWith(in.classHeaders),
               CredentialDecorators(in.bound),
               CredentialProps(in.token, in.username, in.password))

PipeUnused ==
    /\ client = Undef /\ client0 = Undef /\ cooperative = FALSE
    /\ objs = <<>> /\ handles = <<>> /\ aborted = <<>> /\ inv = <<>> /\ hist = <<>>

InitHeaders ==
    /\ input \in HeaderInputs
    /\ output = Undef
    /\ phase = "input"
    /\ PipeUnused

\* "set up the headers" and "add auth header if needed" of descriptor.value
AssembleHeaders ==
    /\ phase = "input"
    /\ LET instance == HeaderInstance(input)
       IN output' = WithAuthorization(
                        HeadersToUse(EmptyObj, instance.defaultConfigs["headers"],
                                     input.callHeaders),
                        instance)
    /\ phase' = "done"
    /\ UNCHANGED <<input, pipeVars>>

NextHeaders == AssembleHeaders

SpecHeaders == InitHeaders /\ [][NextHeaders]_vars

---------------------------------------------------------------------------
(* The default request transform on an assembled request *)

\* spellings of the declared method
MethodSpellings ==
    {<<"g", "e", "t">>, <<"G", "E", "T">>, <<"G", "e", "t">>,
     <<"p", "o", "s", "t">>, <<"P", "O", "S", "T">>, <<"P", "u", "t">>,
     <<"D", "E", "L", "E", "T", "E">>, <<"p", "a", "t", "c", "h">>}

GetSpellings == {<<"g", "e", "t">>, <<"G", "E", "T">>, <<"G", "e", "t">>}

sAppJsonUpper == <<"A", "p", "p", "l", "i", "c", "a", "t", "i", "o", "n", "/", "J", "S", "O", "N">>
sAppJsonCharset == sAppJson \o <<";", " ", "c", "h", "a", "r", "s", "e", "t", "=", "u", "t", "f", "-", "8">>

\* what the call site gives for Accept: nothing (the built-in application/json
\* stays), or a value
NoAccept == [t |-> "absent"]
JsonAccepts == {NoAccept, Str(sAppJsonUpper), Str(sAppJsonCharset)}
OtherAccepts == {Str(sTextPlain), Str(<<>>), Undef}

\* the argument bound by @RequestBody: undefined is an argument not passed
BodyArguments ==
    {Undef, Null, Obj(1), Str(<<"a">>), Str(<<>>), Num(0), Num(7), Bool(FALSE), Bool(TRUE)}

BodyInputs ==
    [method : MethodSpellings, accept : JsonAccepts \cup OtherAccepts,
     bodyBound : BOOLEAN, body : BodyArguments,
     otherFetchOptions : {EmptyObj, [body |-> Str(<<"o">>)]}]

BodyMethodName == "call"

BodyInstance(in) ==
    RestClient(sBase, Undef, EmptyObj,
               [credentialProperty |-> EmptyObj,
                methods |-> [m \in {BodyMethodName} |->
                    [requestBody |-> IF in.bodyBound THEN Num(0) ELSE Undef,
                     queryParams |-> Undef, pathParam |-> <<>>]]],
               EmptyObj)

InitBody ==
    /\ input \in BodyInputs
    /\ output = Undef
    /\ phase = "input"
    /\ PipeUnused

\* descriptor.value up to the end of the default request transform
ApplyRequestTransform ==
    /\ phase = "input"
    /\ LET instance == BodyInstance(input)
           requestBody == getRequestBody(instance, BodyMethodName, <<input.body>>)
           headers == IF input.accept = NoAccept THEN EmptyObj
                      ELSE [n \in {"Accept"} |-> input.accept]
           headersToUse == WithAuthorization(
                               HeadersToUse(EmptyObj, instance.defaultConfigs["headers"], headers),
                               instance)
           fetchOptions == FetchOptions(UrlToUse(instance, BodyMethodName, <<"/">>, <<input.body>>),
                                        input.method, 0, headersToUse,
                                        input.otherFetchOptions)
       IN output' = defaultRequestTransform(fetchOptions, requestBody, fetchOptions["headers"])
    /\ phase' = "done"
    /\ UNCHANGED <<input, pipeVars>>

NextBody == ApplyRequestTransform

SpecBody == InitBody /\ [][NextBody]_vars

---------------------------------------------------------------------------
(* The target URL of an invocation *)

Templates ==
    {<<"/", "u", "/", "{", "i", "d", "}">>,
     <<"/", "{", "i", "d", "}", "/", "{", "i", "x", "}">>,
     <<"/", "{", "i", "d", "}", "/", "{", "i", "d", "}", "/", "{", "n", "}">>}

\* placeholder names registered with @PathParam
PathKeys == {<<"i", "d">>, <<"i", "x">>, <<"i", ".">>, <<"x">>}

\* argument values: strings over a small alphabet, a number, and undefined
ArgStrings == UNION {[1..l -> {"7", "$", "&"}] : l \in 0..MaxArgLen}
ArgValues == {Str(a) : a \in ArgStrings} \cup {Num(42), Undef}

\* the registered bindings, in the order of Object.keys: distinct names, each to
\* one of the two argument positions
PathBindings ==
    {b \in UNION {[1..l -> PathKeys \X {0, 1}] : l \in 0..MaxBindings} :
        \A j, k \in 1..Len(b) : j # k => b[j][1] # b[k][1]}

UrlInputs ==
    [url : Templates, pathParam : PathBindings, inputs : ArgValues \X ArgValues]

UrlMethodName == "call"

UrlInstance(in) ==
    RestClient(sBase, Undef, EmptyObj,
               [credentialProperty |-> EmptyObj,
                methods |-> [m \in {UrlMethodName} |->
                    [requestBody |-> Undef, queryParams |-> Undef,
                     pathParam |-> in.pathParam]]],
               EmptyObj)

InitUrl ==
    /\ input \in UrlInputs
    /\ output = Undef
    /\ phase = "input"
    /\ PipeUnused

\* "construct the url wild cards" and the query string of descriptor.value
BuildUrl ==
    /\ phase = "input"
    /\ output' = Str(UrlToUse(UrlInstance(input), UrlMethodName, input.url, input.inputs))
    /\ phase' = "done"
    /\ UNCHANGED <<input, pipeVars>>

NextUrl == BuildUrl

SpecUrl == InitUrl /\ [][NextUrl]_vars

---------------------------------------------------------------------------
(* The pipeline behind a handle's result: invocations on one client instance *)

Invocations == 1..NInv

\* the headers object RestClient puts on the prototype (defaultConfigs.headers);
\* the objects an invocation creates are referred to by the invocation's number
DefaultHeadersRef == 0

\* @RestApi(url, restApiOptions): the closure of the decorated method, with the
\* defaults of the destructuring
RestApi(url, restApiOptions) ==
    [url |-> url,
     headers |-> IF "headers" \in DOMAIN restApiOptions THEN restApiOptions["headers"]
                 ELSE EmptyObj,
     method |-> IF "method" \in DOMAIN restApiOptions THEN restApiOptions["method"]
                ELSE HttpVerbEnum.GET,
     request_transform |-> IF "request_transform" \in DOMAIN restApiOptions
                           THEN "custom" ELSE "default",
     response_transform |-> IF "response_transform" \in DOMAIN restApiOptions
                            THEN "custom" ELSE "default",
     otherFetchOptions |->
        [n \in (DOMAIN restApiOptions)
                \ {"headers", "method", "request_transform", "response_transform"}
            |-> restApiOptions[n]]]

\* the decorated methods of the client class: a GET with a path parameter and the
\* default transforms, a POST with a body, its own Accept and both transforms
\* supplied by the caller
Methods ==
    [getPet |-> RestApi(<<"/", "p", "/", "{", "i", "d", "}">>, EmptyObj),
     addPet |-> RestApi(<<"/", "p">>,
                        [method |-> <<"p", "o", "s", "t">>,
                         headers |-> [n \in {"Accept"} |-> Str(sTextPlain)],
                         request_transform |-> "custom",
                         response_transform |-> "custom",
                         redirect |-> Str(<<"f", "o", "l", "l", "o", "w">>)])]

MethodNames == DOMAIN Methods

\* __decorators as @PathParam('id') and @RequestBody leave it, with the
\* AccessToken property bound
PipelineDecorators ==
    [credentialProperty |-> [r \in {"AccessToken"} |-> CredentialPropertyName[r]],
     methods |->
        [getPet |-> [requestBody |-> Undef, queryParams |-> Undef,
                     pathParam |-> << <<<<"i", "d">>, 0>> >>],
         addPet |-> [requestBody |-> Num(0), queryParams |-> Undef, pathParam |-> <<>>]]]

\* the @RestClient options explored: no auth and no headers; Bearer auth and a
\* class-level Accept
ClientOptions ==
    {[authType |-> Undef, defaultConfigs |-> EmptyObj],
     [authType |-> Str(sBearer),
      defaultConfigs |-> [headers |-> [n \in {"Accept"} |-> Str(<<"v">>)]]]}

\* the instance an invocation sees: the prototype with its headers object read
\* through the heap
Instance == [client EXCEPT !.defaultConfigs["headers"] = objs[DefaultHeadersRef]]

\* responses of the transport; the text carries the number of the invocation
Responses(i) ==
    {[url |-> Str(<<"h", "/", "r">>), ok |-> Bool(TRUE), status |-> Num(200),
      statusText |-> Str(<<"O", "K">>), headers |-> Obj(i), text |-> [json |-> TRUE, v |-> i]],
     [url |-> Str(<<"h", "/", "e">>), ok |-> Bool(FALSE), status |-> Num(404),
      statusText |-> Str(<<"N", "o">>), headers |-> Obj(i), text |-> [json |-> FALSE, v |-> i]]}

\* the object the headers are merged into: the fresh {} of the invocation
HeadersTargetShared(fresh, defaults) == defaults
HeadersTarget(fresh, defaults) == fresh

\* const controller = new AbortController(): a controller of the invocation's own
NewController(i) == i

\* finalResp at its creation: abort only (abort closes over the controller)
NewFinalRespWithDefaults(controller) ==
    [abort |-> controller, ok |-> Bool(FALSE), status |-> Num(0)]
NewFinalResp(controller) == [abort |-> controller]

\* finalResp.request_body = ...; finalResp.request_headers = ...
WithRequestFieldsBodyOnly(finalResp, fetchOptionToUse) ==
    SetProp(finalResp, "request_body", Prop(fetchOptionToUse, "body"))
WithRequestFields(finalResp, fetchOptionToUse) ==
    SetProp(SetProp(finalResp, "request_body", Prop(fetchOptionToUse, "body")),
            "request_headers", Prop(fetchOptionToUse, "headers"))

\* finalResp.url = resp.url; ... finalResp.response_headers = resp.headers
WithResponseFields(finalResp, resp) ==
    objectAssign(finalResp,
                 [url |-> resp.url, ok |-> resp.ok, status |-> resp.status,
                  statusText |-> resp.statusText, response_headers |-> resp.headers])

\* the number of transport calls after the then-callback has run _fetchData
FetchCallsTwice(n) == n + 2
FetchCalls(n) == n + 1

\* what a caller-supplied request transform may resolve to: the options it was
\* given with a body of its own, or a new object without the signal
CustomRequests(fetchOptions) ==
    {[passesSignalOn |-> TRUE,
      request |-> objectAssign(fetchOptions, [body |-> Str(<<"c">>)])],
     [passesSignalOn |-> FALSE,
      request |-> [url |-> fetchOptions["url"], method |-> fetchOptions["method"],
                   headers |-> fetchOptions["headers"], body |-> Str(<<"n">>)]]}

Pending == [state |-> "pending", value |-> Undef]

IdleInv ==
    [pc |-> "idle", method |-> "", handle |-> 0, controller |-> 0, headers |-> 0,
     fetchOptions |-> EmptyObj, requestBody |-> Undef, promise |-> Pending]

NoHist ==
    [fetchCalls |-> 0, rspCalls |-> 0, failedAt |-> "none", abortAt |-> "none",
     passesSignalOn |-> TRUE, sent |-> EmptyObj, resp |-> Undef, value |-> Undef,
     atFetch |-> EmptyObj, atResponse |-> EmptyObj, observed |-> <<>>]

Init ==
    /\ input = Undef
    /\ output = Undef
    /\ phase = "pipeline"
    /\ cooperative \in BOOLEAN
    /\ \E o \in ClientOptions :
        LET proto == RestClient(sBase, o.authType, o.defaultConfigs, PipelineDecorators,
                                [accessToken |-> Str(<<"s">>)])
        IN /\ client = [proto EXCEPT !.defaultConfigs["headers"] = DefaultHeadersRef]
           /\ objs = [r \in {DefaultHeadersRef} \cup Invocations |->
                        IF r = DefaultHeadersRef THEN proto.defaultConfigs["headers"]
                        ELSE EmptyObj]
           /\ client0 = [client |-> [proto EXCEPT !.defaultConfigs["headers"] = DefaultHeadersRef],
                         headers |-> proto.defaultConfigs["headers"]]
    /\ handles = [r \in Invocations |-> EmptyObj]
    /\ aborted = [r \in Invocations |-> FALSE]
    /\ inv = [i \in Invocations |-> IdleInv]
    /\ hist = [i \in Invocations |-> NoHist]

\* the signal handed to the transport is one whose controller has been aborted
SignalAborted(fetchOptionToUse) ==
    "signal" \in DOMAIN fetchOptionToUse /\ aborted[fetchOptionToUse["signal"]]

\* descriptor.value(...inputs) up to the call of request_transform.  The i-th
\* invocation passes the argument i, so that invocations can be told apart.
Assembled(i, m) ==
    LET inputs == <<Num(i)>>
        target == HeadersTarget(i, DefaultHeadersRef)
        headersToUse == WithAuthorization(
                            HeadersToUse(objs[target], objs[DefaultHeadersRef], Methods[m].headers),
                            Instance)
        controller == NewController(i)
    IN [objs |-> [objs EXCEPT ![target] = headersToUse],
        headers |-> target,
        controller |-> controller,
        finalResp |-> NewFinalResp(controller),
        requestBody |-> getRequestBody(Instance, m, inputs),
        fetchOptions |-> FetchOptions(UrlToUse(Instance, m, Methods[m].url, inputs),
                                      Methods[m].method, controller, target,
                                      Methods[m].otherFetchOptions)]

InvokeGuard(i) ==
    /\ phase = "pipeline"
    /\ inv[i].pc = "idle"
    /\ \A j \in Invocations : j < i => inv[j].pc # "idle"

\* an invocation whose request_transform returns (a request or a promise): the
\* handle, with abort and result, is returned to the caller
Invoke(i, m) ==
    /\ InvokeGuard(i)
    /\ LET a == Assembled(i, m)
       IN /\ objs' = a.objs
          /\ handles' = [handles EXCEPT ![i] = SetProp(a.finalResp, "result", i)]
          /\ inv' = [inv EXCEPT ![i] =
                [pc |-> "rt", method |-> m, handle |-> i, controller |-> a.controller,
                 headers |-> a.headers, fetchOptions |-> a.fetchOptions,
                 requestBody |-> a.requestBody, promise |-> Pending]]
    /\ UNCHANGED <<pureVars, client, client0, cooperative, aborted, hist>>

\* an invocation whose caller-supplied request_transform throws: the exception
\* leaves descriptor.value, no handle is returned
InvokeThrows(i, m) ==
    /\ InvokeGuard(i)
    /\ Methods[m].request_transform = "custom"
    /\ LET a == Assembled(i, m)
       IN /\ objs' = a.objs
          /\ inv' = [inv EXCEPT ![i] =
                [IdleInv EXCEPT !.pc = "threw", !.method = m, !.controller = a.controller,
                                !.headers = a.headers]]
    /\ hist' = [hist EXCEPT ![i].failedAt = "request"]
    /\ UNCHANGED <<pureVars, client, client0, cooperative, handles, aborted>>

\* the caller calls abort() on the handle it holds
Abort(i) ==
    /\ inv[i].pc \notin {"idle", "threw"}
    /\ hist[i].abortAt = "none"
    /\ aborted' = [aborted EXCEPT ![handles[inv[i].handle]["abort"]] = TRUE]
    /\ hist' = [hist EXCEPT ![i].abortAt =
                    IF inv[i].pc \in {"rt", "fetch"} THEN inv[i].pc ELSE "later"]
    /\ UNCHANGED <<pureVars, client, client0, cooperative, objs, handles, inv>>

\* the request transform fulfils with fetchOptionToUse and the then-callback
\* runs: the request is recorded on the handle and _fetchData is called
ThenFetch(i, passesSignalOn, fetchOptionToUse) ==
    LET h == inv[i].handle
        recorded == WithRequestFields(handles[h], fetchOptionToUse)
    IN /\ handles' = [handles EXCEPT ![h] = recorded]
       /\ inv' = [inv EXCEPT ![i].pc = "fetch"]
       /\ hist' = [hist EXCEPT ![i].fetchCalls = FetchCalls(@),
                               ![i].passesSignalOn = passesSignalOn,
                               ![i].sent = fetchOptionToUse,
                               ![i].atFetch = recorded]
       /\ UNCHANGED <<pureVars, client, client0, cooperative, objs, aborted>>

RequestTransformFulfils(i) ==
    /\ inv[i].pc = "rt"
    /\ \/ /\ Methods[inv[i].method].request_transform = "default"
          /\ ThenFetch(i, TRUE,
                       defaultRequestTransform(inv[i].fetchOptions, inv[i].requestBody,
                                               objs[inv[i].fetchOptions["headers"]]))
       \/ /\ Methods[inv[i].method].request_transform = "custom"
          /\ \E c \in CustomRequests(inv[i].fetchOptions) :
                ThenFetch(i, c.passesSignalOn, c.request)

\* a caller-supplied request transform returns a promise that rejects
RequestTransformRejects(i) ==
    /\ inv[i].pc = "rt"
    /\ Methods[inv[i].method].request_transform = "custom"
    /\ inv' = [inv EXCEPT ![i].pc = "rejected",
                          ![i].promise = [state |-> "rejected", value |-> Str(<<"q">>)]]
    /\ hist' = [hist EXCEPT ![i].failedAt = "request"]
    /\ UNCHANGED <<pureVars, client, client0, cooperative, objs, handles, aborted>>

\* the transport fulfils with resp: the response is recorded on the handle and
\* response_transform is called.  A transport that honours the signal does not
\* fulfil once the signal it was given is aborted.
TransportFulfils(i, resp, transformThrows) ==
    /\ inv[i].pc = "fetch"
    /\ ~(cooperative /\ SignalAborted(hist[i].sent))
    /\ transformThrows => Methods[inv[i].method].response_transform = "custom"
    /\ LET h == inv[i].handle
           recorded == WithResponseFields(handles[h], resp)
       IN /\ handles' = [handles EXCEPT ![h] = recorded]
          /\ hist' = [hist EXCEPT ![i].rspCalls = @ + 1,
                                  ![i].resp = resp,
                                  ![i].atResponse = recorded,
                                  ![i].failedAt = IF transformThrows THEN "response" ELSE @]
    /\ inv' = [inv EXCEPT ![i].pc = IF transformThrows THEN "rejected" ELSE "rsp",
                          ![i].promise = IF transformThrows
                                         THEN [state |-> "rejected", value |-> Str(<<"t">>)]
                                         ELSE @]
    /\ UNCHANGED <<pureVars, client, client0, cooperative, objs, aborted>>

\* the transport rejects: a network failure, or the abort of its signal
TransportRejects(i) ==
    /\ inv[i].pc = "fetch"
    /\ inv' = [inv EXCEPT ![i].pc = "rejected",
                          ![i].promise = [state |-> "rejected", value |-> Str(<<"f">>)]]
    /\ hist' = [hist EXCEPT ![i].failedAt = "transport"]
    /\ UNCHANGED <<pureVars, client, client0, cooperative, objs, handles, aborted>>

\* the value the response transform fulfils with
ResponseValue(i) ==
    IF Methods[inv[i].method].response_transform = "default"
    THEN defaultResponseTransform(objs[hist[i].sent["headers"]], hist[i].resp.text)
    ELSE Obj(NInv + i)

ResponseTransformFulfils(i) ==
    /\ inv[i].pc = "rsp"
    /\ inv' = [inv EXCEPT ![i].pc = "fulfilled",
                          ![i].promise = [state |-> "fulfilled", value |-> ResponseValue(i)]]
    /\ hist' = [hist EXCEPT ![i].value = ResponseValue(i)]
    /\ UNCHANGED <<pureVars, client, client0, cooperative, objs, handles, aborted>>

\* reading the body fails, or a caller-supplied response transform rejects
ResponseTransformRejects(i) ==
    /\ inv[i].pc = "rsp"
    /\ inv' = [inv EXCEPT ![i].pc = "rejected",
                          ![i].promise = [state |-> "rejected", value |-> Str(<<"b">>)]]
    /\ hist' = [hist EXCEPT ![i].failedAt = "response"]
    /\ UNCHANGED <<pureVars, client, client0, cooperative, objs, handles, aborted>>

\* a then / await on the handle's result sees the settled outcome of its promise
Observe(i) ==
    /\ inv[i].pc \in {"fulfilled", "rejected"}
    /\ Len(hist[i].observed) < MaxObs
    /\ hist' = [hist EXCEPT ![i].observed =
                    Append(@, inv[handles[inv[i].handle]["result"]].promise)]
    /\ UNCHANGED <<pureVars, client, client0, cooperative, objs, handles, aborted, inv>>

Next ==
    \E i \in Invocations :
        \/ \E m \in MethodNames : Invoke(i, m)
        \/ \E m \in MethodNames : InvokeThrows(i, m)
        \/ Abort(i)
        \/ RequestTransformFulfils(i)
        \/ RequestTransformRejects(i)
        \/ \E resp \in Responses(i), transformThrows \in BOOLEAN :
                TransportFulfils(i, resp, transformThrows)
        \/ TransportRejects(i)
        \/ ResponseTransformFulfils(i)
        \/ ResponseTransformRejects(i)
        \/ Observe(i)

Spec == Init /\ [][Next]_vars

---------------------------------------------------------------------------
(* Properties of the assembly steps *)

\* the cases in which a client with an authType has no resolvable credential
CredentialUnresolvable(in) ==
    \/ in.authType = Str(sDigest)
    \/ /\ in.authType = Str(sBearer)
       /\ ("AccessToken" \notin in.bound \/ in.token \in {Undef, Str(<<>>)})
    \/ /\ in.authType = Str(sBasic)
       /\ \/ "Username" \notin in.bound \/ in.username = Undef
          \/ "Password" \notin in.bound \/ in.password = Undef

\* C3: on a client whose authType is set (Basic, Bearer or Digest) and whose
\* credential cannot be resolved, the outgoing headers hold no Authorization key
\* (computing them raises nothing: AssembleHeaders always completes).
C3_NoAuthorizationWhenUnresolvable ==
    (phase = "done" /\ CredentialUnresolvable(input)
        /\ "Authorization" \notin DOMAIN input.callHeaders)
    => "Authorization" \notin DOMAIN output

\* the value the precedence order gives header n: call site over class over built-in
SourceDefining(in, n) ==
    IF n \in DOMAIN in.callHeaders THEN "call"
    ELSE IF in.classHeaders # Undef /\ n \in DOMAIN in.classHeaders THEN "class"
    ELSE IF n \in {"Accept", "Content-Type"} THEN "builtin"
    ELSE "none"

BodyArgument(in) == IF in.bodyBound THEN in.body ELSE Undef

\* C6 as stated: with the default request transform the body handed on is nothing
\* for a GET method in any letter case, the JSON text of the body argument for
\* another method with a JSON Accept, and otherwise the body argument unchanged,
\* or null when the argument is absent.
C6_BodyAsStated ==
    phase = "done" =>
        LET body == Prop(output, "body")
            arg == BodyArgument(input)
        IN IF input.method \in GetSpellings THEN body = Undef
           ELSE IF input.accept \in JsonAccepts THEN body = JSONStringify(arg)
           ELSE body = (IF arg = Undef THEN Null ELSE arg)

\* C6 (amended): as C6, except that with a non-JSON Accept the body is the body
\* argument unchanged only when the argument is truthy, and null for every falsy
\* argument (absent, null, "", 0, false).
C6_BodyByMethodAcceptArgument ==
    phase = "done" =>
        LET body == Prop(output, "body")
            arg == BodyArgument(input)
        IN IF input.method \in GetSpellings THEN body = Undef
           ELSE IF input.accept \in JsonAccepts THEN body = JSONStringify(arg)
           ELSE body = (IF Truthy(arg) THEN arg ELSE Null)

\* a POST with a non-JSON Accept and the empty string as body argument: null
C6_Witness ==
    /\ phase = "done"
    /\ input.method = <<"p", "o", "s", "t">>
    /\ input.accept = Str(sTextPlain)
    /\ input.bodyBound /\ input.body = Str(<<>>)
    /\ Prop(output, "body") = Null

\* the literal reading of the placeholders: scanning s from position k, a token
\* {name} of a registered name becomes the string form of its argument, any other
\* character stays
RECURSIVE LiteralSubstituteFrom(_, _, _, _)
LiteralSubstituteFrom(s, pathParam, inputs, k) ==
    IF k > Len(s) THEN <<>>
    ELSE LET hits == {j \in 1..Len(pathParam) :
                        LET token == <<"{">> \o pathParam[j][1] \o <<"}">>
                        IN /\ k + Len(token) - 1 <= Len(s)
                           /\ SubSeq(s, k, k + Len(token) - 1) = token}
         IN IF hits = {} THEN <<s[k]>> \o LiteralSubstituteFrom(s, pathParam, inputs, k + 1)
            ELSE LET j == CHOOSE j \in hits : TRUE
                 IN JSToString(InputAt(inputs, Num(pathParam[j][2])))
                    \o LiteralSubstituteFrom(s, pathParam, inputs, k + Len(pathParam[j][1]) + 2)

\* C7: the target URL is baseUrl + template with every occurrence of {name}, for
\* each registered binding name -> index, replaced by the string form of that
\* argument whatever characters it holds, and every other token left as written
\* (a binding never replaces a token of another name).
C7_UrlLiteralSubstitution ==
    phase = "done" =>
        output = Str(LiteralSubstituteFrom(sBase \o input.url, input.pathParam, input.inputs, 1))

---------------------------------------------------------------------------
(* Properties of the pipeline *)

\* the invocation returned a handle to its caller
Returned(i) == inv[i].pc \notin {"idle", "threw"}

\* the handle the caller of invocation i holds
Handle(i) == handles[inv[i].handle]

\* the stages that have fulfilled, read from the position of the pipeline
RequestFulfilled(i) ==
    \/ inv[i].pc \in {"fetch", "rsp", "fulfilled"}
    \/ inv[i].pc = "rejected" /\ hist[i].failedAt \in {"transport", "response"}

TransportFulfilled(i) ==
    \/ inv[i].pc \in {"rsp", "fulfilled"}
    \/ inv[i].pc = "rejected" /\ hist[i].failedAt = "response"

AbortedBeforeCompletion(i) == hist[i].abortAt \in {"rt", "fetch"}

RequestFieldNames == {"request_body", "request_headers"}
ResponseFieldNames == {"url", "ok", "status", "statusText", "response_headers"}

\* C1: per invocation the transport is called at most once, and exactly once when
\* the request transform has fulfilled, however often result is observed (not at
\* all, once, several times); every observation of result sees the same outcome.
C1_TransportOncePerInvocation ==
    \A i \in Invocations :
        /\ hist[i].fetchCalls = (IF RequestFulfilled(i) THEN 1 ELSE 0)
        /\ \A k \in 1..Len(hist[i].observed) :
            /\ hist[i].observed[k] = inv[i].promise
            /\ hist[i].observed[k] = hist[i].observed[1]

\* a result observed twice after one transport call
C1_Witness ==
    \E i \in Invocations :
        /\ Len(hist[i].observed) >= 2
        /\ hist[i].fetchCalls = 1
        /\ inv[i].promise.state = "fulfilled"
        /\ hist[i].observed[2].value = hist[i].value

\* C2: every failure of the request transform, the transport or the response
\* transform, a request transform that throws synchronously included, leaves the
\* invocation returning a handle whose result is rejected and never fulfilled.
C2_FailureSurfacesAsRejection ==
    \A i \in Invocations :
        hist[i].failedAt # "none" =>
            /\ Returned(i)
            /\ inv[i].promise.state = "rejected"

\* C4 as stated: a returned handle has abort even before the request transform
\* completes; an abort() before transport completion aborts the very signal
\* handed to the transport, and with a transport that rejects on an aborted
\* signal result is never fulfilled.
C4_AbortAsStated ==
    \A i \in Invocations :
        /\ Returned(i) => "abort" \in DOMAIN Handle(i)
        /\ (AbortedBeforeCompletion(i) /\ hist[i].fetchCalls > 0) =>
                /\ SignalAborted(hist[i].sent)
                /\ hist[i].sent["signal"] = Handle(i)["abort"]
        /\ (cooperative /\ AbortedBeforeCompletion(i)) => inv[i].promise.state # "fulfilled"

\* C4 (amended): the same, for an invocation whose request transform hands on the
\* signal of the options it was given, as the default transform does.
C4_AbortReachesTransport ==
    \A i \in Invocations :
        /\ Returned(i) => "abort" \in DOMAIN Handle(i)
        /\ (AbortedBeforeCompletion(i) /\ hist[i].fetchCalls > 0 /\ hist[i].passesSignalOn) =>
                /\ SignalAborted(hist[i].sent)
                /\ hist[i].sent["signal"] = Handle(i)["abort"]
        /\ (cooperative /\ AbortedBeforeCompletion(i) /\ hist[i].passesSignalOn) =>
                inv[i].promise.state # "fulfilled"

\* abort() called before the request transform completed; the transport, which
\* honours the signal, was then called with it aborted and result is rejected
C4_Witness ==
    \E i \in Invocations :
        /\ cooperative
        /\ hist[i].abortAt = "rt"
        /\ hist[i].passesSignalOn
        /\ hist[i].fetchCalls = 1
        /\ SignalAborted(hist[i].sent)
        /\ hist[i].failedAt = "transport"
        /\ inv[i].promise.state = "rejected"

\* C8: the transport is called only after the request transform fulfilled, with
\* the handle's request_body and request_headers already those of the transformed
\* request; the response transform is invoked only after the transport fulfilled,
\* with url, ok, status, statusText and response_headers already those of the raw
\* response; result fulfils only after the response transform, with its value.
C8_StagesOrdered ==
    \A i \in Invocations :
        /\ hist[i].fetchCalls > 0 =>
            /\ RequestFulfilled(i)
            /\ RequestFieldNames \subseteq DOMAIN hist[i].atFetch
            /\ hist[i].atFetch["request_body"] = Prop(hist[i].sent, "body")
            /\ hist[i].atFetch["request_headers"] = hist[i].sent["headers"]
        /\ hist[i].fetchCalls = 0 => hist[i].rspCalls = 0
        /\ hist[i].rspCalls > 0 =>
            /\ TransportFulfilled(i)
            /\ ResponseFieldNames \subseteq DOMAIN hist[i].atResponse
            /\ hist[i].atResponse["url"] = hist[i].resp.url
            /\ hist[i].atResponse["ok"] = hist[i].resp.ok
            /\ hist[i].atResponse["status"] = hist[i].resp.status
            /\ hist[i].atResponse["statusText"] = hist[i].resp.statusText
            /\ hist[i].atResponse["response_headers"] = hist[i].resp.headers
        /\ inv[i].promise.state = "fulfilled" =>
            /\ hist[i].rspCalls = 1
            /\ hist[i].failedAt = "none"
            /\ inv[i].promise.value = ResponseValue(i)

\* an invocation with caller-supplied transforms that ran through all stages
C8_Witness ==
    \E i \in Invocations :
        /\ inv[i].method = "addPet"
        /\ inv[i].promise.state = "fulfilled"
        /\ hist[i].atFetch["request_body"] = Str(<<"c">>)
        /\ hist[i].atResponse["status"] = Num(404)
        /\ inv[i].promise.value = Obj(NInv + i)

\* C9: invocations in flight on one client share no handle, headers object or
\* abort controller: abort() on one handle never marks another invocation's
\* signal, a handle only ever holds its own invocation's data, and invocations
\* using the default transforms leave defaultConfigs (its headers included),
\* baseUrl, authType and __decorators of the client as they were.
C9_InvocationsIsolated ==
    /\ \A i, j \in Invocations :
        (i # j /\ inv[i].pc # "idle" /\ inv[j].pc # "idle") =>
            /\ inv[i].headers # inv[j].headers
            /\ inv[i].controller # inv[j].controller
            /\ (Returned(i) /\ Returned(j)) => inv[i].handle # inv[j].handle
    /\ \A i \in Invocations :
        /\ inv[i].pc # "idle" => (aborted[inv[i].controller] => hist[i].abortAt # "none")
        /\ Returned(i) =>
            /\ Handle(i)["abort"] = inv[i].controller
            /\ Handle(i)["result"] = i
            /\ "request_headers" \in DOMAIN Handle(i) =>
                    /\ Handle(i)["request_headers"] = inv[i].headers
                    /\ Handle(i)["request_body"] = Prop(hist[i].sent, "body")
            /\ "response_headers" \in DOMAIN Handle(i) =>
                    /\ Handle(i)["response_headers"] = Obj(i)
                    /\ Handle(i)["status"] = hist[i].resp.status
    /\ (\A i \in Invocations :
            inv[i].pc # "idle" => Methods[inv[i].method].request_transform = "default")
        => /\ client = client0.client
           /\ objs[DefaultHeadersRef] = client0.headers

\* two invocations of the method with the default transforms in flight at once on
\* a Bearer client, the first aborted and the second not
C9_Witness ==
    /\ \A i \in {1, 2} : inv[i].pc \in {"rt", "fetch", "rsp"} /\ inv[i].method = "getPet"
    /\ hist[1].abortAt # "none" /\ aborted[inv[1].controller]
    /\ ~aborted[inv[2].controller]
    /\ "Authorization" \in DOMAIN objs[inv[2].headers]
    /\ "Authorization" \notin DOMAIN objs[DefaultHeadersRef]

\* C10: when the request transform rejects, the transport is never called and
\* request_body, request_headers, url, ok, status, statusText and
\* response_headers stay unset on the handle; when the transport rejects, the
\* response transform is never invoked, the five response fields stay unset and
\* request_body and request_headers keep what was recorded before the call.
C10_FailedStageStopsPipeline ==
    \A i \in Invocations :
        /\ (hist[i].failedAt = "request" /\ Returned(i)) =>
            /\ hist[i].fetchCalls = 0
            /\ DOMAIN Handle(i) \cap (RequestFieldNames \cup ResponseFieldNames) = {}
        /\ hist[i].failedAt = "transport" =>
            /\ hist[i].rspCalls = 0
            /\ DOMAIN Handle(i) \cap ResponseFieldNames = {}
            /\ RequestFieldNames \subseteq DOMAIN Handle(i)
            /\ Handle(i)["request_body"] = Prop(hist[i].sent, "body")
            /\ Handle(i)["request_headers"] = hist[i].sent["headers"]

\* one invocation failed in its request transform, another in the transport
C10_Witness ==
    \E i, j \in Invocations :
        /\ hist[i].failedAt = "request" /\ inv[i].pc = "rejected"
        /\ hist[j].failedAt = "transport" /\ inv[j].pc = "rejected"
        /\ Handle(j)["request_body"] = Str(<<"n">>)

=============================================================================
